---- MODULE Spec2Model ----
(***************************************************************************)
(* Volatility-Forecaster: the DataProcessor (data_utils.py) and the        *)
(* GARCHModel handler (python_app/garch_models.py) as state machines.      *)
(*                                                                         *)
(* Numbers.  A float is a 4-tuple <<n, d, a, b>> standing for the real     *)
(* n/d + a*ln(2) + b*ln(3); d = 0 marks the IEEE specials:                 *)
(* <<0,0,0,0>> is NaN, <<1,0,0,0>> is +inf, <<-1,0,0,0>> is -inf.          *)
(* Rationals are kept in lowest terms with d > 0.  np.log is computed on   *)
(* the 3-smooth rationals (2^i * 3^j) as the exponent vector, so a log     *)
(* return is a different object from the price ratio it comes from.        *)
(***************************************************************************)
EXTENDS Integers, Sequences, FiniteSets, TLC

\* ------------------------------------------------------------------ bounds
\* Longest variable prefix of an input price series.
MaxHead == 2
\* Longest variable prefix of an input return series.
MaxReturnHead == 1
\* Largest forecast horizon the caller asks for.
MaxHorizon == 2
\* Longest residual series of the fits the diagnostics are evaluated on.
MaxObs == 5
\* Longest variable prefix of a price series delivered to the application.
MaxAppHead == 1

\* ------------------------------------------------------- program constants
\* data_utils.py:49   if len(data) < 50
FetchMinRows == 50
\* garch_models.py:46 if len(returns_clean) < 50
FitMinObs == 50
\* garch_models.py:50 returns_clean * 100
ReturnScale == 100
\* garch_models.py:97 variance_forecast / 10000
VarianceScale == 10000
\* app.py:107          len(stock_data) < 100
AppMinRows == 100

\* ------------------------------------------------------------------ values
None == [kind |-> "None"]
Unset == [kind |-> "Unset"]

NaN == <<0, 0, 0, 0>>
PInf == <<1, 0, 0, 0>>
NInf == <<-1, 0, 0, 0>>

Abs(n) == IF n < 0 THEN -n ELSE n

RECURSIVE GCD(_, _)
GCD(m, n) == IF n = 0 THEN m ELSE GCD(n, m % n)

\* The rational n/d (d # 0) in lowest terms, sign on the numerator.
Rat(n, d) ==
    LET g == GCD(Abs(n), Abs(d))
        s == IF d < 0 THEN -1 ELSE 1
    IN  <<(s * n) \div g, (s * d) \div g, 0, 0>>

F(n) == <<n, 1, 0, 0>>

IsNaN(x) == x = NaN
IsSpecial(x) == x[2] = 0
IsRational(x) == x[2] # 0 /\ x[3] = 0 /\ x[4] = 0
IsFinite(x) == x[2] # 0

\* IEEE division of two rationals or specials (prices / prices.shift(1)).
FDiv(x, y) ==
    IF IsNaN(x) \/ IsNaN(y) THEN NaN
    ELSE IF IsSpecial(x) /\ IsSpecial(y) THEN NaN
    ELSE IF IsSpecial(x) THEN (IF y[1] < 0 THEN <<-x[1], 0, 0, 0>> ELSE x)
    ELSE IF IsSpecial(y) THEN F(0)
    ELSE IF y[1] = 0 THEN
        (IF x[1] = 0 THEN NaN ELSE IF x[1] > 0 THEN PInf ELSE NInf)
    ELSE Rat(x[1] * y[2], x[2] * y[1])

\* x - 1 on rationals and specials (pct_change is ratio - 1).
FSubOne(x) == IF IsSpecial(x) THEN x ELSE Rat(x[1] - x[2], x[2])

\* Sum of two finite values; NaN absorbs.
FAdd(x, y) ==
    IF IsNaN(x) \/ IsNaN(y) THEN NaN
    ELSE IF IsSpecial(x) /\ IsSpecial(y) THEN (IF x = y THEN x ELSE NaN)
    ELSE IF IsSpecial(x) THEN x
    ELSE IF IsSpecial(y) THEN y
    ELSE LET g == GCD(x[2], y[2])
             r == Rat(x[1] * (y[2] \div g) + y[1] * (x[2] \div g),
                      (x[2] \div g) * y[2])
         IN  <<r[1], r[2], x[3] + y[3], x[4] + y[4]>>

\* Multiplication by an integer constant k > 0.
FScale(x, k) ==
    IF IsSpecial(x) THEN x
    ELSE LET r == Rat(x[1] * k, x[2])
         IN  <<r[1], r[2], x[3] * k, x[4] * k>>

FNeg(x) == IF IsNaN(x) THEN NaN ELSE <<-x[1], x[2], -x[3], -x[4]>>

\* Product of two rationals.
FMul(x, y) == Rat(x[1] * y[1], x[2] * y[2])

\* The non-negative integer whose square is n (n a perfect square).
ISqrt(n) == CHOOSE r \in 0..n : r * r = n

\* np.sqrt on a rational whose numerator and denominator are squares.
FSqrt(x) == Rat(ISqrt(x[1]), ISqrt(x[2]))

\* Exponent of the prime p in n > 0.
RECURSIVE Val(_, _)
Val(p, n) == IF n % p = 0 THEN 1 + Val(p, n \div p) ELSE 0

RECURSIVE Pow(_, _)
Pow(b, e) == IF e = 0 THEN 1 ELSE b * Pow(b, e - 1)

\* np.log: NaN for a negative argument, -inf at 0, the exponent vector of a
\* positive 3-smooth rational.
FLog(x) ==
    IF IsNaN(x) THEN NaN
    ELSE IF x = PInf THEN PInf
    ELSE IF x = NInf THEN NaN
    ELSE IF x[1] < 0 THEN NaN
    ELSE IF x[1] = 0 THEN NInf
    ELSE <<0, 1, Val(2, x[1]) - Val(2, x[2]), Val(3, x[1]) - Val(3, x[2])>>

\* np.exp on a pure log value a*ln(2) + b*ln(3).
FExp(x) ==
    IF IsNaN(x) THEN NaN
    ELSE IF x = PInf THEN PInf
    ELSE IF x = NInf THEN F(0)
    ELSE Rat(Pow(2, IF x[3] > 0 THEN x[3] ELSE 0) * Pow(3, IF x[4] > 0 THEN x[4] ELSE 0),
             Pow(2, IF x[3] < 0 THEN -x[3] ELSE 0) * Pow(3, IF x[4] < 0 THEN -x[4] ELSE 0))

\* --------------------------------------------------------- pandas objects
\* A Series is [index |-> labels, values |-> floats], of equal length.
Series(idx, vals) == [index |-> idx, values |-> vals]

SeriesLen(s) == Len(s.index)

Positions(s) == 1..Len(s.index)

\* Series.dropna(): the entries whose value is not NaN, labels kept.
DropNaPositions(s) == {i \in Positions(s) : ~IsNaN(s.values[i])}

\* The integers of a finite set, in increasing order.
SortedSeq(S) ==
    IF S = {} THEN <<>>
    ELSE LET lo == CHOOSE x \in S : \A y \in S : x <= y
             hi == CHOOSE x \in S : \A y \in S : x >= y
         IN  SelectSeq([i \in 1..(hi - lo + 1) |-> lo + i - 1],
                       LAMBDA x : x \in S)

TakePositions(s, keep) ==
    LET ps == SortedSeq(keep)
    IN  Series([k \in 1..Len(ps) |-> s.index[ps[k]]],
               [k \in 1..Len(ps) |-> s.values[ps[k]]])

dropna(s) == TakePositions(s, DropNaPositions(s))

\* Series.shift(-1): the value one position later, NaN at the last.
shift1_backwards(s) ==
    Series(s.index,
           [i \in Positions(s) |->
               IF i = Len(s.index) THEN NaN ELSE s.values[i + 1]])

\* Series.shift(1): the value one position earlier, NaN at the first.
shift1(s) ==
    Series(s.index,
           [i \in Positions(s) |-> IF i = 1 THEN NaN ELSE s.values[i - 1]])

\* s[1:], a positional slice.
slice_from_1(s) == TakePositions(s, Positions(s) \ {1})

\* The value a Series holds at a label, NaN where it has none (alignment).
At(s, label) ==
    IF \E i \in Positions(s) : s.index[i] = label
    THEN s.values[CHOOSE i \in Positions(s) : s.index[i] = label]
    ELSE NaN

Labels(s) == {s.index[i] : i \in Positions(s)}

\* A DataFrame is [columns |-> names, index |-> labels, data |-> [name -> values]].
Frame(cols, idx, data) == [columns |-> cols, index |-> idx, data |-> data]

ColumnSet(df) == {df.columns[k] : k \in 1..Len(df.columns)}

\* df[name], a Series sharing the frame's index.
Column(df, name) == Series(df.index, df.data[name])

\* len(df)
FrameLen(df) == Len(df.index)

\* DataFrame.empty: an axis of length 0.
FrameEmpty(df) == Len(df.columns) = 0 \/ Len(df.index) = 0

\* DataFrame.dropna(): the rows holding no NaN in any column.
frame_dropna(df) ==
    LET keep == {i \in 1..Len(df.index) :
                    \A c \in ColumnSet(df) : ~IsNaN(df.data[c][i])}
        ps == SortedSeq(keep)
    IN  Frame(df.columns,
              [k \in 1..Len(ps) |-> df.index[ps[k]]],
              [c \in ColumnSet(df) |-> [k \in 1..Len(ps) |-> df.data[c][ps[k]]]])

\* ------------------------------------------------------------------ inputs
\* Prices a provider may deliver: positive, zero, negative, missing.
PriceVals == {F(-2), F(0), F(1), F(2), F(3), NaN}

SeqsUpTo(S, n) == UNION {[1..k -> S] : k \in 0..n}

\* A long run of valid prices 1, 2, 3, 1, 2, 3, ... of length k.
Pad(k) == [i \in 1..k |-> F(1 + (i % 3))]

PadLens == {0, 2} \cup {FetchMinRows - k : k \in 0..MaxHead}

\* Input series: a short arbitrary prefix followed by a run of valid prices.
PriceSeqs == {h \o Pad(k) : h \in SeqsUpTo(PriceVals, MaxHead), k \in PadLens}

Reverse(s) == [i \in 1..Len(s) |-> s[Len(s) + 1 - i]]

\* Column layouts: yfinance's history() frame, one with an adjusted close,
\* one with neither standard name, one with no columns at all.
Layouts == {<<"Close", "Volume">>, <<"Close", "Adj Close">>,
            <<"Open", "Price">>, <<>>}

\* The frame with the given columns: the first column holds s, the others s
\* reversed, so that the columns differ.
MkFrame(layout, s) ==
    Frame(layout, [i \in 1..Len(s) |-> i],
          [c \in {layout[k] : k \in 1..Len(layout)} |->
              IF c = layout[1] THEN s ELSE Reverse(s)])

Frames == {MkFrame(l, s) : l \in Layouts, s \in PriceSeqs}

\* What stock.history() does: it returns a frame or raises (network, ticker).
Raises == [kind |-> "Raises"]
ProviderOutcomes == Frames \cup {Raises}

IsFrame(x) == DOMAIN x = {"columns", "index", "data"}

\* ------------------------------------------------------------------ state
VARIABLES
    provider,      \* what the market-data provider answers to history()
    stock_data,    \* the caller's variable holding fetch_stock_data's result
    returns,       \* the caller's return series, the input of fit_garch
    model,         \* GARCHModel.model
    fitted_model,  \* GARCHModel.fitted_model
    model_fit,     \* the caller's variable holding the fit object it passes on
    last,          \* the last call: [op, arg, cause, printed]
    failed_before, \* the diagnostic test that failed in the call before it
    ret,           \* what the last call returned
    pc,            \* the position of the application's run in main()
    shown          \* what the run has put on the page, in order

vars == <<provider, stock_data, returns, model, fitted_model, model_fit, last,
          failed_before, ret, pc, shown>>

\* What the library's objects and their callers hold.
library == <<provider, stock_data, returns, model, fitted_model, model_fit,
             last, failed_before, ret>>

\* What a run of the application holds besides.
app == <<pc, shown>>

handler == <<model, fitted_model>>

Call(op, arg, cause, printed) ==
    [op |-> op, arg |-> arg, cause |-> cause, printed |-> printed]

NoCall == Call("init", None, "ok", "")

DiagnosticTests == {"ljung_box_test", "arch_lm_test"}

\* The caller's record of the call before: the test that returned None.
Remember ==
    failed_before' = IF last.op \in DiagnosticTests /\ ret = None
                     THEN last.op ELSE "none"

\* ------------------------------------------------------------ DataProcessor
\* The price column calculate_returns reads.
SelectPrices(price_data) ==
    IF "Adj Close" \in ColumnSet(price_data) THEN Column(price_data, "Adj Close")
    ELSE IF "Close" \in ColumnSet(price_data) THEN Column(price_data, "Close")
    ELSE Column(price_data, price_data.columns[Len(price_data.columns)])

\* np.log(prices.shift(1) / prices)
LogRatio_inverted(prices) ==
    Series(prices.index,
           [i \in Positions(prices) |->
               FLog(FDiv(shift1(prices).values[i], prices.values[i]))])

\* np.log(prices / prices.shift(1))
LogRatio(prices) ==
    Series(prices.index,
           [i \in Positions(prices) |->
               FLog(FDiv(prices.values[i], shift1(prices).values[i]))])

\* prices.pct_change()
pct_change(prices) ==
    Series(prices.index,
           [i \in Positions(prices) |->
               FSubOne(FDiv(prices.values[i], shift1(prices).values[i]))])

\* pd.DataFrame({...}) of Series: the union of their labels, NaN where a
\* Series has none.
ReturnsFrame(log_returns, simple_returns, price) ==
    LET all == Labels(log_returns) \cup Labels(simple_returns) \cup Labels(price)
        idx == SortedSeq(all)
    IN  Frame(<<"log_returns", "simple_returns", "price">>, idx,
              [c \in {"log_returns", "simple_returns", "price"} |->
                  [k \in 1..Len(idx) |->
                      At(CASE c = "log_returns" -> log_returns
                           [] c = "simple_returns" -> simple_returns
                           [] OTHER -> price, idx[k])]])

\* The body of calculate_returns's try block on a frame with a price column.
ReturnsOf(price_data) ==
    LET prices == SelectPrices(price_data)
        log_returns == dropna(LogRatio(prices))
        simple_returns == dropna(pct_change(prices))
    IN  ReturnsFrame(log_returns, slice_from_1(simple_returns),
                     slice_from_1(prices))

\* calculate_returns(price_data): None (and a printed message) when the
\* argument is no frame or has no column to read.
calculate_returns(price_data) ==
    /\ last' = Call("calculate_returns", price_data,
                    IF ~IsFrame(price_data) THEN "AttributeError"
                    ELSE IF Len(price_data.columns) = 0 THEN "IndexError"
                    ELSE "ok",
                    IF IsFrame(price_data) /\ Len(price_data.columns) > 0
                    THEN "" ELSE "Error calculating returns")
    /\ ret' = IF IsFrame(price_data) /\ Len(price_data.columns) > 0
              THEN ReturnsOf(price_data) ELSE None
    /\ UNCHANGED <<provider, stock_data, returns, handler, model_fit>>

\* fetch_stock_data(ticker, start_date, end_date)
fetch_stock_data ==
    LET data == provider
        cause == IF data = Raises THEN "ProviderError"
                 ELSE IF FrameEmpty(data) THEN "NoData"
                 ELSE IF FrameLen(data) < FetchMinRows THEN "InsufficientData"
                 ELSE "ok"
    IN  /\ last' = Call("fetch_stock_data", None, cause,
                        IF cause = "ok" THEN "" ELSE "Error fetching data")
        /\ ret' = IF cause = "ok" THEN frame_dropna(data) ELSE None
        /\ stock_data' = ret'
        /\ UNCHANGED <<provider, returns, handler, model_fit>>

DataInit ==
    /\ provider \in ProviderOutcomes
    /\ stock_data = Unset
    /\ returns = Series(<<>>, <<>>)
    /\ model = None
    /\ fitted_model = None
    /\ model_fit = None
    /\ last = NoCall
    /\ failed_before = "none"
    /\ ret = None
    /\ pc = "idle"
    /\ shown = <<>>

\* The caller passes what fetch_stock_data handed on, or a frame of its own.
CalculateReturnsStep ==
    /\ Remember
    /\ UNCHANGED app
    /\ \E price_data \in ({stock_data} \ {Unset}) \cup ({provider} \ {Raises}) :
           calculate_returns(price_data)

FetchStep == Remember /\ UNCHANGED app /\ fetch_stock_data

DataNext ==
    \/ FetchStep
    \/ CalculateReturnsStep

DataSpec == DataInit /\ [][DataNext]_vars

\* --------------------------------------------------------------- GARCHModel
\* Returns a caller may hold: valid values and missing ones.
ReturnVals == {Rat(-1, 50), NaN}

\* A long run of valid returns -1/100, 0, 1/100, ... of length k.
ReturnPad(k) == [i \in 1..k |-> Rat((i % 3) - 1, 100)]

ReturnPadLens == {FitMinObs - k : k \in 0..MaxReturnHead}

MkSeries(vals) == Series([i \in 1..Len(vals) |-> i], vals)

ReturnInputs ==
    {MkSeries(h \o ReturnPad(k)) :
        h \in SeqsUpTo(ReturnVals, MaxReturnHead), k \in ReturnPadLens}

\* A second, valid return series, for a second fit on the same handler.
OtherReturns == MkSeries([i \in 1..FitMinObs |-> Rat(1 + (i % 2), 100)])

\* The error distributions the caller may name; arch_model knows the first.
Dists == {"normal", "bogus"}
KnownDists == {"normal"}

\* returns_clean * 100
ScaleReturns(returns_clean) ==
    Series(returns_clean.index,
           [i \in Positions(returns_clean) |->
               FScale(returns_clean.values[i], ReturnScale)])

\* arch_model(returns_scaled, vol='GARCH', p=p, q=q, dist=dist): the model
\* object, unfitted.  Its mean is the library's default, a constant.
arch_model(returns_scaled, p, q, dist) ==
    [kind |-> "Model", y |-> returns_scaled, mean |-> "Constant",
     vol |-> "GARCH", p |-> p, q |-> q, dist |-> dist]

ParamNames == {"mu", "omega", "alpha[1]", "beta[1]"}

\* Points the optimiser may end at.  The library constrains the estimates
\* to alpha + beta <= 1, so that the bound itself can be the optimum, and at
\* a failure to converge it returns its last point with a non-zero
\* convergence_flag and a warning, which show_warning=False suppresses.
OptimiserEnds ==
    {[mu |-> 0, sigma |-> 2, alpha |-> Rat(1, 10), beta |-> Rat(4, 5),
      convergence_flag |-> 0],
     [mu |-> 1, sigma |-> 2, alpha |-> Rat(1, 5), beta |-> Rat(4, 5),
      convergence_flag |-> 0],
     [mu |-> 1, sigma |-> 2, alpha |-> Rat(1, 10), beta |-> Rat(4, 5),
      convergence_flag |-> 1]}

\* A result object of model.fit(): the estimates the optimiser ended at, the
\* residuals y - mu and the conditional volatility, all in the scale of y.
FitResult(m, est) ==
    [kind |-> "Fit",
     params |-> [n \in ParamNames |->
                    CASE n = "mu" -> F(est.mu)
                      [] n = "omega" -> Rat(1, 10)
                      [] n = "alpha[1]" -> est.alpha
                      [] OTHER -> est.beta],
     convergence_flag |-> est.convergence_flag,
     resid |-> Series(m.y.index,
                      [i \in Positions(m.y) |->
                          FAdd(m.y.values[i], F(-est.mu))]),
     conditional_volatility |->
         Series(m.y.index, [i \in Positions(m.y) |-> F(est.sigma)]),
     nobs |-> SeriesLen(m.y)]

\* What model.fit(disp='off', show_warning=False) may do: raise, or return
\* the result at one of the points the optimiser can end at.
FitOutcomes(m) == {Raises} \cup {FitResult(m, est) : est \in OptimiserEnds}

IsFit(x) == "kind" \in DOMAIN x /\ x.kind = "Fit"

\* The size check of fit_garch, on the series with its NaN dropped.
InsufficientObservations_raw(rets) == SeriesLen(rets) < FitMinObs
InsufficientObservations(rets) == SeriesLen(dropna(rets)) < FitMinObs

\* fit_garch(returns, p, q, dist); the caller keeps what it returns
\* (model_fit = garch_model.fit_garch(...)).
fit_garch(rets, p, q, dist) ==
    LET arg == [returns |-> rets, p |-> p, q |-> q, dist |-> dist]
        m == arch_model(ScaleReturns(dropna(rets)), p, q, dist)
    IN  /\ UNCHANGED <<provider, stock_data, returns>>
        /\ IF InsufficientObservations(rets) THEN
               /\ last' = Call("fit_garch", arg, "InsufficientData",
                               "Error fitting GARCH model: Insufficient data for GARCH modeling")
               /\ ret' = None
               /\ UNCHANGED handler
           ELSE IF dist \notin KnownDists THEN
               \* arch_model raises before self.model is assigned
               /\ last' = Call("fit_garch", arg, "ModelError",
                               "Error fitting GARCH model")
               /\ ret' = None
               /\ UNCHANGED handler
           ELSE \E outcome \in FitOutcomes(m) :
               /\ model' = m
               /\ IF outcome = Raises
                  THEN /\ last' = Call("fit_garch", arg, "FitError",
                                       "Error fitting GARCH model")
                       /\ ret' = None
                       /\ UNCHANGED fitted_model
                  ELSE /\ last' = Call("fit_garch", arg, "ok", "")
                       /\ fitted_model' = outcome
                       /\ ret' = outcome
        /\ model_fit' = ret'

\* Forecast variances model_fit.forecast() may report, in the scale of y;
\* squares of rationals, so that np.sqrt is exact on them.
VarianceVals == {F(4), Rat(9, 4)}

\* The one-step variance, which the library computes from the fit without
\* simulating: a function of the fit.
OneStepVariance(mf) == IF mf.params["mu"] = F(0) THEN F(4) ELSE Rat(9, 4)

\* forecasts.variance.values[-1, :] for a horizon H >= 1 with
\* method='simulation', simulations=1000: the first step is the one-step
\* variance; the later steps are averages over paths drawn from a generator
\* which forecast_volatility neither seeds nor takes from its caller.
VarianceRows(mf, H) ==
    {[h \in 1..H |-> IF h = 1 THEN OneStepVariance(mf) ELSE b] :
        b \in VarianceVals}

\* volatility_forecast / 100
Unscale(x) == FDiv(x, F(ReturnScale))
\* variance_forecast / 10000
UnscaleVariance_once(x) == FDiv(x, F(ReturnScale))
UnscaleVariance(x) == FDiv(x, F(VarianceScale))

\* The dict forecast_volatility builds from the library's variance row.
ForecastDict(variance_forecast, horizon) ==
    [volatility_forecast |->
        [h \in 1..Len(variance_forecast) |-> Unscale(FSqrt(variance_forecast[h]))],
     variance_forecast |->
        [h \in 1..Len(variance_forecast) |-> UnscaleVariance(variance_forecast[h])],
     forecast_horizon |-> horizon]

IsForecast(x) == "forecast_horizon" \in DOMAIN x

\* forecast_volatility(model_fit, horizon)
forecast_volatility(mf, horizon) ==
    LET arg == [model_fit |-> mf, horizon |-> horizon]
    IN  /\ UNCHANGED <<provider, stock_data, returns, handler>>
        /\ UNCHANGED model_fit
        /\ IF ~IsFit(mf) THEN
               /\ last' = Call("forecast_volatility", arg, "AttributeError",
                               "Error generating forecasts")
               /\ ret' = None
           ELSE IF horizon < 1 THEN
               \* the library rejects a horizon below 1
               /\ last' = Call("forecast_volatility", arg, "ValueError",
                               "Error generating forecasts")
               /\ ret' = None
           ELSE \E variance_forecast \in VarianceRows(mf, horizon) :
               /\ last' = Call("forecast_volatility", arg, "ok", "")
               /\ ret' = ForecastDict(variance_forecast, horizon)

\* get_model_summary(model_fit)
get_model_summary(mf) ==
    /\ UNCHANGED <<provider, stock_data, returns, handler, model_fit>>
    /\ last' = Call("get_model_summary", [model_fit |-> mf],
                    IF IsFit(mf) THEN "ok" ELSE "AttributeError",
                    IF IsFit(mf) THEN "" ELSE "Error extracting model summary")
    /\ ret' = IF IsFit(mf)
              THEN [parameters |-> mf.params,
                    aic |-> "aic", bic |-> "bic",
                    loglikelihood |-> "loglikelihood",
                    num_observations |-> mf.nobs]
              ELSE None

\* residuals / conditional_volatility, a new Series.
StandardizedResiduals(mf) ==
    Series(mf.resid.index,
           [i \in Positions(mf.resid) |->
               FDiv(mf.resid.values[i], mf.conditional_volatility.values[i])])

\* calculate_residuals giving up once a diagnostic call has failed.
ResidualsOf_latched(mf) ==
    IF IsFit(mf) /\ ~(last.op \in DiagnosticTests /\ last.cause # "ok")
    THEN StandardizedResiduals(mf) ELSE None

\* calculate_residuals reading the handler's own fit instead of the one
\* passed to it.
ResidualsOf_self(mf) ==
    IF IsFit(fitted_model) THEN StandardizedResiduals(fitted_model) ELSE None

\* What calculate_residuals returns: None for an object without the
\* attributes of a fit.
ResidualsOf(mf) == IF IsFit(mf) THEN StandardizedResiduals(mf) ELSE None

\* The object passed to calculate_residuals, after the call: the division
\* builds a new Series and nothing is assigned to the object.
FitAfterResiduals_inplace(mf) ==
    IF IsFit(mf) THEN [mf EXCEPT !.resid = StandardizedResiduals(mf)] ELSE mf
FitAfterResiduals(mf) == mf

\* The effect of a diagnostic call on the objects it can reach: the object
\* passed, which the caller's variable or self.fitted_model may hold.
DiagnosticFrame(mf) ==
    /\ model_fit' = IF model_fit = mf THEN FitAfterResiduals(mf)
                    ELSE model_fit
    /\ fitted_model' = IF fitted_model = mf THEN FitAfterResiduals(mf)
                       ELSE fitted_model
    /\ UNCHANGED <<provider, stock_data, returns, model>>

\* calculate_residuals(model_fit)
calculate_residuals(mf) ==
    /\ DiagnosticFrame(mf)
    /\ last' = Call("calculate_residuals", [model_fit |-> mf],
                    IF IsFit(mf) THEN "ok" ELSE "AttributeError",
                    IF IsFit(mf) THEN "" ELSE "Error calculating residuals")
    /\ ret' = ResidualsOf(mf)

\* std_residuals ** 2, the values only.
SquaredResiduals(std_residuals) ==
    [i \in Positions(std_residuals) |->
        FMul(std_residuals.values[i], std_residuals.values[i])]

\* The same sum with the divisor n - i.
LjungBoxStatistic_shifted(z2, lags) ==
    LET n == Len(z2)
    IN  [of |-> z2, factor |-> n * (n + 2),
         terms |-> [k \in 1..lags |->
                       LET i == k - 1
                       IN  [autocorr |-> i + 1, divisor |-> n - i]]]

\* lb_stat = n * (n + 2) * sum(autocorr[i] ** 2 / (n - i - 1) for i in
\* range(lags)), autocorr[i] being the autocorrelation at lag i + 1; kept as
\* the terms of the sum.
LjungBoxStatistic(z2, lags) ==
    LET n == Len(z2)
    IN  [of |-> z2, factor |-> n * (n + 2),
         terms |-> [k \in 1..lags |->
                       LET i == k - 1
                       IN  [autocorr |-> i + 1, divisor |-> n - i - 1]]]

\* 1 - chi2.cdf(stat, lags) and chi2.ppf(0.95, lags), kept as terms.
ChiSquareTail(stat, lags) == [tail_of |-> "chi2", at |-> stat, df |-> lags]
ChiSquareQuantile(lags) == [quantile_of |-> "chi2", level |-> 95, df |-> lags]

\* Whether the sum of ljung_box_test divides by zero: the term i = n - 1
\* has divisor 0, and its autocorrelation (no overlapping pair at lag n) is
\* Python's float nan, whose division by 0 raises.
LjungBoxDividesByZero(n, lags) == n >= 1 /\ lags >= n

\* ljung_box_test(model_fit, lags)
ljung_box_test(mf, lags) ==
    LET arg == [model_fit |-> mf, lags |-> lags]
        std_residuals == ResidualsOf(mf)
        z2 == SquaredResiduals(std_residuals)
    IN  /\ DiagnosticFrame(mf)
        /\ IF std_residuals = None THEN
               /\ last' = Call("ljung_box_test", arg, "ResidualsFailed",
                               "Error calculating residuals")
               /\ ret' = None
           ELSE IF LjungBoxDividesByZero(Len(z2), lags) THEN
               /\ last' = Call("ljung_box_test", arg, "ZeroDivisionError",
                               "Error performing Ljung-Box test")
               /\ ret' = None
           ELSE
               /\ last' = Call("ljung_box_test", arg, "ok", "")
               /\ ret' = [test_statistic |-> LjungBoxStatistic(z2, lags),
                          p_value |-> ChiSquareTail("lb_stat", lags),
                          lags |-> lags,
                          critical_value |-> ChiSquareQuantile(lags)]

\* The design matrix with column i + 1 = squared_residuals[lags-i : n-i].
DesignMatrix_unlagged(z2, lags) ==
    [r \in 1..(Len(z2) - lags) |->
        [c \in 1..(lags + 1) |->
            IF c = 1 THEN F(1)
            ELSE LET i == c - 2 IN z2[(lags - i) + r]]]

\* The design matrix X of arch_lm_test: n - lags rows, an intercept column
\* and, for i in range(lags), column i + 1 = squared_residuals[lags-i-1 : n-i-1].
DesignMatrix(z2, lags) ==
    [r \in 1..(Len(z2) - lags) |->
        [c \in 1..(lags + 1) |->
            IF c = 1 THEN F(1)
            ELSE LET i == c - 2 IN z2[(lags - i - 1) + r]]]

\* f[lo] + ... + f[hi], summed by halves.
RECURSIVE FSumRange(_, _, _)
FSumRange(f, lo, hi) ==
    IF lo > hi THEN F(0)
    ELSE IF lo = hi THEN f[lo]
    ELSE LET mid == (lo + hi) \div 2
         IN  FAdd(FSumRange(f, lo, mid), FSumRange(f, mid + 1, hi))

FSum(f, n) == FSumRange(f, 1, n)

\* X.T @ X
Gram(X, cols) ==
    [a \in 1..cols |-> [b \in 1..cols |->
        FSum([r \in 1..Len(X) |-> FMul(X[r][a], X[r][b])], Len(X))]]

FSub(x, y) == FAdd(x, FNeg(y))

\* The determinant of a square matrix of order 1, 2 or 3.
Det(G, order) ==
    IF order = 1 THEN G[1][1]
    ELSE IF order = 2 THEN FSub(FMul(G[1][1], G[2][2]), FMul(G[1][2], G[2][1]))
    ELSE FAdd(FSub(FMul(G[1][1], FSub(FMul(G[2][2], G[3][3]), FMul(G[2][3], G[3][2]))),
                   FMul(G[1][2], FSub(FMul(G[2][1], G[3][3]), FMul(G[2][3], G[3][1])))),
              FMul(G[1][3], FSub(FMul(G[2][1], G[3][2]), FMul(G[2][2], G[3][1]))))

\* Whether X.T @ X is singular: always with fewer rows than columns, else by
\* its determinant (the inputs keep lags <= 2 when there are that many rows).
SingularGram(z2, lags) ==
    LET rows == Len(z2) - lags
        cols == lags + 1
    IN  rows < cols \/ Det(Gram(DesignMatrix(z2, lags), cols), cols) = F(0)

\* What np.linalg.solve does with X.T @ X: on the zero matrix (no rows) it
\* raises LinAlgError; on another singular matrix rounding decides whether
\* the factorisation meets an exact zero pivot (LinAlgError) or goes through
\* with an ill-conditioned solution; otherwise it solves.
SolveOutcomes(z2, lags) ==
    IF Len(z2) - lags = 0 THEN {"LinAlgError"}
    ELSE IF SingularGram(z2, lags) THEN {"LinAlgError", "ill-conditioned"}
    ELSE {"solved"}

\* lm_stat = (n - lags) * r_squared, kept as its terms.
ArchLMStatistic(z2, lags, solve) ==
    [of |-> z2, rows |-> Len(z2) - lags, regressors |-> lags, solve |-> solve,
     X |-> DesignMatrix(z2, lags),
     y |-> [r \in 1..(Len(z2) - lags) |-> z2[lags + r]]]

\* arch_lm_test(model_fit, lags)
arch_lm_test(mf, lags) ==
    LET arg == [model_fit |-> mf, lags |-> lags]
        std_residuals == ResidualsOf(mf)
        z2 == SquaredResiduals(std_residuals)
    IN  /\ DiagnosticFrame(mf)
        /\ IF std_residuals = None THEN
               /\ last' = Call("arch_lm_test", arg, "ResidualsFailed",
                               "Error calculating residuals")
               /\ ret' = None
           ELSE IF lags < 0 \/ Len(z2) - lags < 0 THEN
               \* np.ones of a negative dimension, or X.T @ y of unequal lengths
               /\ last' = Call("arch_lm_test", arg, "ValueError",
                               "Error performing ARCH-LM test")
               /\ ret' = None
           ELSE \E solve \in SolveOutcomes(z2, lags) :
               IF solve = "LinAlgError" THEN
                   \* except np.linalg.LinAlgError: return None
                   /\ last' = Call("arch_lm_test", arg, "LinAlgError", "")
                   /\ ret' = None
               ELSE
                   /\ last' = Call("arch_lm_test", arg, "ok", "")
                   /\ ret' = [test_statistic |->
                                  ArchLMStatistic(z2, lags, solve),
                              p_value |-> ChiSquareTail("lm_stat", lags),
                              lags |-> lags,
                              critical_value |-> ChiSquareQuantile(lags)]

\* squared_residuals.autocorr(lag) ** 2: the squared Pearson correlation of
\* the series with itself shifted by lag, over the pairs both have; NaN with
\* fewer than two pairs or a constant side.
autocorr_squared(z2, lag) ==
    LET m == Len(z2) - lag
        a == [t \in 1..m |-> z2[lag + t]]
        b == [t \in 1..m |-> z2[t]]
        sab == FSub(FScale(FSum([t \in 1..m |-> FMul(a[t], b[t])], m), m),
                    FMul(FSum(a, m), FSum(b, m)))
        saa == FSub(FScale(FSum([t \in 1..m |-> FMul(a[t], a[t])], m), m),
                    FMul(FSum(a, m), FSum(a, m)))
        sbb == FSub(FScale(FSum([t \in 1..m |-> FMul(b[t], b[t])], m), m),
                    FMul(FSum(b, m), FSum(b, m)))
    IN  IF m < 2 THEN NaN ELSE FDiv(FMul(sab, sab), FMul(saa, sbb))

\* The number lb_stat is: n * (n + 2) * sum of autocorr ** 2 / divisor over
\* the terms (0 for an empty sum).
LjungBoxValue(stat) ==
    LET L == Len(stat.terms)
        total == FSum([k \in 1..L |->
                         FDiv(autocorr_squared(stat.of, stat.terms[k].autocorr),
                              F(stat.terms[k].divisor))], L)
    IN  IF L = 0 THEN F(0) ELSE FScale(total, stat.factor)

\* The number lm_stat is when the normal equations were solved:
\* (n - lags) * (1 - ssr / tss), with beta by Cramer's rule, ssr as
\* y.y - beta.(X.T @ y) and tss as y.y - (sum y) ** 2 / rows.  With a constant
\* y this is 0/0 (rounding can make it -inf as well; neither is >= 0).
ArchLMValue(stat) ==
    LET X == stat.X
        y == stat.y
        rows == stat.rows
        cols == stat.regressors + 1
        G == Gram(X, cols)
        Xy == [a \in 1..cols |->
                  FSum([r \in 1..rows |-> FMul(X[r][a], y[r])], rows)]
        D == Det(G, cols)
        Dj == [j \in 1..cols |->
                  Det([a \in 1..cols |-> [b \in 1..cols |->
                          IF b = j THEN Xy[a] ELSE G[a][b]]], cols)]
        yy == FSum([r \in 1..rows |-> FMul(y[r], y[r])], rows)
        sy == FSum(y, rows)
        ssr == FDiv(FSub(FMul(yy, D),
                         FSum([j \in 1..cols |-> FMul(Dj[j], Xy[j])], cols)), D)
        tss == FSub(yy, FDiv(FMul(sy, sy), F(rows)))
        r_squared == FSub(F(1), FDiv(ssr, tss))
    IN  IF IsNaN(r_squared) THEN NaN ELSE FMul(F(rows), r_squared)

\* Whether 1 - chi2.cdf(value, df) is NaN: at a NaN statistic, and for
\* df <= 0, which the distribution rejects; otherwise it lies in [0, 1].
PValueIsNaN(value, df) == IsNaN(value) \/ df <= 0

\* What a caller passes as model_fit: the object fit_garch returned to it
\* (None after a failure), or the handler's fitted_model attribute.
Passable == {model_fit, fitted_model}

\* Lag counts a caller may pass: a negative one, one, and the number of
\* observations.
LagInputs(mf) == {-1, 1} \cup (IF IsFit(mf) THEN {mf.nobs} ELSE {})

Horizons == 0..MaxHorizon

\* ------------------------------------------------------------ specification
Init ==
    /\ provider = Raises
    /\ stock_data = Unset
    /\ returns \in ReturnInputs
    /\ model = None
    /\ fitted_model = None
    /\ model_fit = None
    /\ last = NoCall
    /\ failed_before = "none"
    /\ ret = None
    /\ pc = "idle"
    /\ shown = <<>>

FitStep ==
    /\ Remember
    /\ UNCHANGED app
    /\ \E rets \in {returns, OtherReturns}, dist \in Dists :
           fit_garch(rets, 1, 1, dist)

ForecastStep ==
    /\ Remember
    /\ UNCHANGED app
    /\ \E mf \in Passable, horizon \in Horizons : forecast_volatility(mf, horizon)

SummaryStep == Remember /\ UNCHANGED app /\ \E mf \in Passable : get_model_summary(mf)

ResidualsStep ==
    Remember /\ UNCHANGED app /\ \E mf \in Passable : calculate_residuals(mf)

LjungBoxStep ==
    /\ Remember
    /\ UNCHANGED app
    /\ \E mf \in Passable : \E lags \in LagInputs(mf) : ljung_box_test(mf, lags)

ArchLMStep ==
    /\ Remember
    /\ UNCHANGED app
    /\ \E mf \in Passable : \E lags \in LagInputs(mf) : arch_lm_test(mf, lags)

Next ==
    \/ FitStep
    \/ ForecastStep
    \/ SummaryStep
    \/ ResidualsStep
    \/ LjungBoxStep
    \/ ArchLMStep

Spec == Init /\ [][Next]_vars

\* ------------------------------------------------ diagnostics on short fits
\* The diagnostic operations take the fit as an argument; here the caller
\* holds a fit of the library on a short series, mean 0 and volatility 2, so
\* that the statistics can be evaluated exactly.
ShortVals == {F(0), F(2), F(4)}

ShortEstimate ==
    [mu |-> 0, sigma |-> 2, alpha |-> Rat(1, 10), beta |-> Rat(4, 5),
     convergence_flag |-> 0]

ShortFits ==
    {FitResult(arch_model(MkSeries(v), 1, 1, "normal"), ShortEstimate) :
        v \in SeqsUpTo(ShortVals, MaxObs) \ {<<>>}}

\* Lag counts passed with a short fit.
DiagLags == {-1, 0, 1, 2}

DiagInit ==
    /\ provider = Raises
    /\ stock_data = Unset
    /\ returns = Series(<<>>, <<>>)
    /\ model = None
    /\ fitted_model = None
    /\ model_fit \in ShortFits
    /\ last = NoCall
    /\ failed_before = "none"
    /\ ret = None
    /\ pc = "idle"
    /\ shown = <<>>

ShortLjungBoxStep ==
    /\ Remember
    /\ UNCHANGED app
    /\ \E lags \in DiagLags : ljung_box_test(model_fit, lags)

ShortArchLMStep ==
    /\ Remember
    /\ UNCHANGED app
    /\ \E lags \in DiagLags : arch_lm_test(model_fit, lags)

ShortResidualsStep ==
    Remember /\ UNCHANGED app /\ calculate_residuals(model_fit)

DiagNext ==
    \/ ShortResidualsStep
    \/ ShortLjungBoxStep
    \/ ShortArchLMStep

DiagSpec == DiagInit /\ [][DiagNext]_vars

\* -------------------------------------------------------- the application
\* main() of the application: one run of the analysis after the button is
\* pressed, from the input checks to the export tab.

\* Prices at the head of a frame the provider delivers to the application.
AppPriceVals == {F(2), NaN}

AppPadLens == {AppMinRows - k : k \in 0..MaxAppHead}

AppFrames ==
    {MkFrame(l, h \o Pad(k)) :
        l \in Layouts, h \in SeqsUpTo(AppPriceVals, MaxAppHead), k \in AppPadLens}

AppProviderOutcomes == AppFrames \cup {Raises}

\* The sidebar's inputs: the ticker text, whether the start date lies before
\* the end date, and the forecast horizon of the select box.
Tickers == {"", "AAPL"}
AppHorizons == {1, 5}

\* An element of the page: a message, or a display with what it shows.
Element(kind, body) == [kind |-> kind, body |-> body]

ErrorMessage(text) == Element("error", text)

\* The two messages of the handler around the run (except Exception as e).
ExceptMessages ==
    <<ErrorMessage("An error occurred during analysis"),
      ErrorMessage("Please try again with different parameters")>>

SuccessMessage == Element("success", "Analysis completed")

\* The test after the fetch: stock_data is None or len(stock_data) < 100.
TooFewRows_unchecked(data) == data = None
TooFewRows(data) == data = None \/ FrameLen(data) < AppMinRows

\* The column plot_price_series draws.
PlotPriceColumn(data) ==
    IF "Adj Close" \in ColumnSet(data) THEN Column(data, "Adj Close")
    ELSE IF "Close" \in ColumnSet(data) THEN Column(data, "Close")
    ELSE Column(data, data.columns[Len(data.columns)])

\* The column the data overview takes its metrics from.
OverviewPriceColumn(data) ==
    IF "Adj Close" \in ColumnSet(data) THEN Column(data, "Adj Close")
    ELSE IF "Close" \in ColumnSet(data) THEN Column(data, "Close")
    ELSE Column(data, data.columns[Len(data.columns)])

\* The column the export table reads, stock_data['Adj Close']: a KeyError
\* where the frame has no column of that name.
ExportPriceColumn(data) ==
    IF "Adj Close" \in ColumnSet(data) THEN Column(data, "Adj Close")
    ELSE Raises

AppInit ==
    /\ provider \in AppProviderOutcomes
    /\ stock_data = Unset
    /\ returns = Series(<<>>, <<>>)
    /\ model = None
    /\ fitted_model = None
    /\ model_fit = None
    /\ last = NoCall
    /\ failed_before = "none"
    /\ ret = None
    /\ pc = "idle"
    /\ shown = <<>>

\* The checks of the inputs before the run starts.
AppStart ==
    /\ pc = "idle"
    /\ UNCHANGED library
    /\ \E ticker \in Tickers, dates_ordered \in BOOLEAN :
           IF ticker = "" THEN
               /\ shown' = Append(shown, ErrorMessage("Please enter a valid stock ticker."))
               /\ pc' = "done"
           ELSE IF ~dates_ordered THEN
               /\ shown' = Append(shown, ErrorMessage("Start date must be before end date."))
               /\ pc' = "done"
           ELSE
               /\ pc' = "fetch"
               /\ UNCHANGED shown

\* Step 1: fetch the data and leave when there is too little of it.
AppFetch ==
    /\ pc = "fetch"
    /\ Remember
    /\ fetch_stock_data
    /\ IF TooFewRows(ret')
       THEN /\ shown' = Append(shown, ErrorMessage("Insufficient data"))
            /\ pc' = "done"
       ELSE /\ pc' = "returns"
            /\ UNCHANGED shown

\* Step 2: returns_data = data_processor.calculate_returns(stock_data),
\* which the run keeps without a test.
AppReturns ==
    /\ pc = "returns"
    /\ Remember
    /\ calculate_returns(stock_data)
    /\ pc' = "fit"
    /\ UNCHANGED shown

\* Step 3: fit on returns_data['log_returns'] and leave when the fit failed.
\* Subscripting a returns_data of None raises before fit_garch is called.
AppFit ==
    /\ pc = "fit"
    /\ LET returns_data == ret
       IN  IF returns_data = None THEN
               /\ shown' = shown \o ExceptMessages
               /\ pc' = "done"
               /\ UNCHANGED library
           ELSE
               /\ Remember
               /\ fit_garch(Column(returns_data, "log_returns"), 1, 1, "normal")
               /\ IF ret' = None
                  THEN /\ shown' = Append(shown, ErrorMessage("Failed to fit GARCH model"))
                       /\ pc' = "done"
                  ELSE /\ pc' = "forecast"
                       /\ UNCHANGED shown

\* Step 4: forecasts = garch_model.forecast_volatility(model_fit,
\* forecast_horizon), which the run keeps without a test.
AppForecast ==
    /\ pc = "forecast"
    /\ Remember
    /\ \E forecast_horizon \in AppHorizons :
           forecast_volatility(model_fit, forecast_horizon)
    /\ pc' = "display"
    /\ UNCHANGED shown

\* Step 5: the progress indicators are cleared and the success message shown.
AppSuccess ==
    /\ pc = "display"
    /\ shown' = Append(shown, SuccessMessage)
    /\ pc' = "tabs"
    /\ UNCHANGED library

\* The tabs, in order: the price plot and the overview's metrics, the
\* forecast table (forecasts['volatility_forecast']), the model summary and
\* the export table.  The plots catch their own errors; any other exception
\* ends the run in the handler around it, what is on the page staying there.
AppTabs ==
    /\ pc = "tabs"
    /\ pc' = "done"
    /\ LET forecasts == ret
           overview == shown \o
               <<Element("price_plot", PlotPriceColumn(stock_data)),
                 Element("metrics", OverviewPriceColumn(stock_data))>>
       IN  IF forecasts = None THEN
               /\ shown' = overview \o ExceptMessages
               /\ UNCHANGED library
           ELSE
               /\ Remember
               /\ get_model_summary(model_fit)
               /\ shown' = overview \o
                      <<Element("forecast_table", forecasts.volatility_forecast)>> \o
                      (IF ExportPriceColumn(stock_data) = Raises
                       THEN ExceptMessages
                       ELSE <<Element("export", ExportPriceColumn(stock_data))>>)

AppNext ==
    \/ AppStart
    \/ AppFetch
    \/ AppReturns
    \/ AppFit
    \/ AppForecast
    \/ AppSuccess
    \/ AppTabs

AppSpec == AppInit /\ [][AppNext]_vars

\* ------------------------------------------------- every public operation
\* detect_outliers and, with it, a caller that uses the operations of both
\* classes in any order.

\* The method names detect_outliers knows, and one it does not.
KnownOutlierMethods == {"iqr", "zscore"}
OutlierMethods == KnownOutlierMethods \cup {"bogus"}

\* What leaves an operation whose body raised: the handler of every public
\* method prints the message and returns None.
Caught_reraised(exception) == Raises
Caught(exception) == None

\* The exception the body of detect_outliers raises, "ok" when none: the
\* else branch raises ValueError for an unknown method, and the percentage
\* divides by the number of clean returns.
OutlierFailure(rets, method) ==
    IF method \notin KnownOutlierMethods THEN "ValueError"
    ELSE IF SeriesLen(dropna(rets)) = 0 THEN "ZeroDivisionError"
    ELSE "ok"

\* The dict detect_outliers returns, the selection kept as its rule.
OutlierDict(rets, method, threshold) ==
    LET outliers == [rule |-> method, of |-> dropna(rets),
                     threshold |-> threshold]
    IN  [outliers |-> outliers,
         num_outliers |-> [len_of |-> outliers],
         outlier_percentage |->
             [len_of |-> outliers, over |-> SeriesLen(dropna(rets)), times |-> 100],
         outlier_indices |-> [index_of |-> outliers]]

\* detect_outliers(returns, method, threshold=3)
detect_outliers(rets, method) ==
    LET cause == OutlierFailure(rets, method)
    IN  /\ last' = Call("detect_outliers", [returns |-> rets, method |-> method],
                        cause,
                        IF cause = "ok" THEN "" ELSE "Error detecting outliers")
        /\ ret' = IF cause = "ok" THEN OutlierDict(rets, method, 3)
                  ELSE Caught(cause)
        /\ UNCHANGED <<provider, stock_data, returns, handler, model_fit>>

\* A series holding no valid return.
NoReturns == MkSeries(<<NaN>>)

DetectOutliersStep ==
    /\ Remember
    /\ UNCHANGED app
    /\ \E rets \in {OtherReturns, NoReturns}, method \in OutlierMethods :
           detect_outliers(rets, method)

\* What the provider answers to this caller: it raises, or delivers few or
\* enough rows, with or without columns.
ApiProviderOutcomes ==
    {Raises} \cup {MkFrame(l, Pad(k)) :
                      l \in {<<"Close", "Volume">>, <<>>}, k \in {2, FetchMinRows}}

\* The caller's own return series is one observation short.
ApiInit ==
    /\ provider \in ApiProviderOutcomes
    /\ stock_data = Unset
    /\ returns = MkSeries(ReturnPad(FitMinObs - 1))
    /\ model = None
    /\ fitted_model = None
    /\ model_fit = None
    /\ last = NoCall
    /\ failed_before = "none"
    /\ ret = None
    /\ pc = "idle"
    /\ shown = <<>>

ApiNext ==
    \/ FetchStep
    \/ CalculateReturnsStep
    \/ DetectOutliersStep
    \/ FitStep
    \/ ForecastStep
    \/ SummaryStep
    \/ ResidualsStep
    \/ LjungBoxStep
    \/ ArchLMStep

ApiSpec == ApiInit /\ [][ApiNext]_vars

\* ------------------------------------------------------------------ claims
ClosedCall(op) == last.op = op

\* The clean observation count of the series passed to fit_garch.
CleanCount(rets) == Cardinality({i \in Positions(rets) : ~IsNaN(rets.values[i])})

\* C1: fit_garch counts the observations left after dropping NaN: with fewer
\* than 50 the call fails for insufficient data, returns None and leaves
\* self.model and self.fitted_model alone; with 50 or more the size check
\* passes and, for a distribution the library knows, the model is built on
\* the scaled clean series and the fit is run.
C1_FitObservationThreshold ==
    [][last'.op = "fit_garch" =>
        IF CleanCount(last'.arg.returns) < FitMinObs
        THEN /\ last'.cause = "InsufficientData"
             /\ ret' = None
             /\ model' = model
             /\ fitted_model' = fitted_model
        ELSE /\ last'.cause # "InsufficientData"
             /\ last'.arg.dist \in KnownDists =>
                   /\ last'.cause \in {"ok", "FitError"}
                   /\ model' # None
                   /\ SeriesLen(model'.y) = CleanCount(last'.arg.returns)]_vars

\* A call rejected at 49 clean observations although the series is 50 long.
C1_Witness ==
    /\ ClosedCall("fit_garch")
    /\ SeriesLen(last.arg.returns) = FitMinObs
    /\ CleanCount(last.arg.returns) = FitMinObs - 1
    /\ last.cause = "InsufficientData"
    /\ ret = None

\* The failure kinds of the specification.
FailureKinds ==
    {"InsufficientData", "InvalidInput", "Convergence", "NumericalInstability"}

\* C2: every failure of a core operation reaches the caller as a typed
\* failure whose kind it can tell, and none is swallowed without a report.
C2_TypedFailures ==
    last.cause # "ok" =>
        /\ "kind" \in DOMAIN ret
        /\ ret.kind \in FailureKinds
        /\ last.printed # ""

\* A regression that is well posed: a fit, at least one lag, at least as
\* many rows as columns, regressors that are not collinear.
ArchLMWellPosed(arg) ==
    /\ IsFit(arg.model_fit)
    /\ arg.lags >= 1
    /\ arg.model_fit.nobs - arg.lags >= arg.lags + 1
    /\ ~SingularGram(SquaredResiduals(StandardizedResiduals(arg.model_fit)),
                     arg.lags)

LjungBoxWellPosed(arg) ==
    /\ IsFit(arg.model_fit)
    /\ arg.lags >= 1
    /\ arg.lags < arg.model_fit.nobs

IsTestResult(r, test, arg) ==
    /\ "test_statistic" \in DOMAIN r
    /\ r.p_value.at = (IF test = "ljung_box" THEN "lb_stat" ELSE "lm_stat")
    /\ r.lags = arg.lags
    /\ r.test_statistic.of =
           SquaredResiduals(StandardizedResiduals(arg.model_fit))

\* C3: the diagnostic tests are independent: right after a ljung_box_test
\* that failed, a well-posed arch_lm_test returns its result on the
\* residuals of the fit passed, and the other way round.
C3_IndependentDiagnostics ==
    /\ (failed_before = "ljung_box_test" /\ ClosedCall("arch_lm_test")
            /\ ArchLMWellPosed(last.arg))
        => IsTestResult(ret, "arch_lm", last.arg)
    /\ (failed_before = "arch_lm_test" /\ ClosedCall("ljung_box_test")
            /\ LjungBoxWellPosed(last.arg))
        => IsTestResult(ret, "ljung_box", last.arg)

\* An arch_lm_test result on the fit on which ljung_box_test just failed.
C3_Witness ==
    /\ failed_before = "ljung_box_test"
    /\ ClosedCall("arch_lm_test")
    /\ ArchLMWellPosed(last.arg)
    /\ last.arg.model_fit = fitted_model
    /\ ret # None

ReadOnlyOps == {"calculate_residuals", "ljung_box_test", "arch_lm_test"}

\* C4: calculate_residuals, ljung_box_test and arch_lm_test are read-only:
\* whether they return a result or None, the fit object passed (held by the
\* caller or by the handler) and self.model are what they were.
C4_DiagnosticsReadOnly ==
    [][last'.op \in ReadOnlyOps =>
        /\ model' = model
        /\ fitted_model' = fitted_model
        /\ model_fit' = model_fit]_vars

\* A diagnostic call that failed on the handler's own fit.
C4_Witness ==
    /\ ClosedCall("ljung_box_test")
    /\ IsFit(last.arg.model_fit)
    /\ last.arg.model_fit = fitted_model
    /\ last.cause = "ZeroDivisionError"

\* C5: no component retains state across calls: the handler's fields are
\* what they were right after construction.
C5_NoRetainedState == model = None /\ fitted_model = None

\* The call of calculate_returns on a frame it can read a price column of.
ReturnsComputed ==
    /\ ClosedCall("calculate_returns")
    /\ IsFrame(last.arg)
    /\ Len(last.arg.columns) > 0

PositivePrices(prices) ==
    \A i \in Positions(prices) :
        IsRational(prices.values[i]) /\ prices.values[i][1] > 0

\* C6: for a series of n >= 1 finite positive prices the result has n - 1
\* rows, and row t holds, at the label of price t + 1, the log return
\* ln(price[t+1] / price[t]) (positions from 1).
C6_LogReturnSeries ==
    ReturnsComputed =>
        LET prices == SelectPrices(last.arg)
            n == SeriesLen(prices)
        IN  (n >= 1 /\ PositivePrices(prices)) =>
                /\ ret # None
                /\ FrameLen(ret) = n - 1
                /\ \A t \in 1..(n - 1) :
                      /\ ret.index[t] = prices.index[t + 1]
                      /\ ret.data["log_returns"][t] =
                            FLog(FDiv(prices.values[t + 1], prices.values[t]))

\* Returns of a positive series long enough to pass the fetch check.
C6_Witness ==
    /\ ReturnsComputed
    /\ SeriesLen(SelectPrices(last.arg)) >= FetchMinRows
    /\ PositivePrices(SelectPrices(last.arg))
    /\ FrameLen(ret) = SeriesLen(SelectPrices(last.arg)) - 1

\* C7: for a series of finite positive prices, exp of the sum of the first t
\* log returns is price[t+1] / price[1] (positions from 1), for every t.
C7_RoundTrip ==
    ReturnsComputed =>
        LET prices == SelectPrices(last.arg)
            n == SeriesLen(prices)
        IN  (n >= 1 /\ PositivePrices(prices)) =>
                \A t \in 1..(n - 1) :
                    FExp(FSum(ret.data["log_returns"], t)) =
                        FDiv(prices.values[t + 1], prices.values[1])

\* Returns of a positive series of three prices or more, not all equal.
C7_Witness ==
    /\ ReturnsComputed
    /\ SeriesLen(SelectPrices(last.arg)) >= 3
    /\ PositivePrices(SelectPrices(last.arg))
    /\ SelectPrices(last.arg).values[3] # SelectPrices(last.arg).values[1]
    /\ ret # None

NonPositive(x) == ~IsNaN(x) /\ x[1] <= 0

\* C8: calculate_returns fails with an invalid-input failure whenever a
\* price of the series it reads is <= 0.
C8_RejectsNonPositivePrice ==
    (ReturnsComputed /\ \E i \in Positions(SelectPrices(last.arg)) :
                            NonPositive(SelectPrices(last.arg).values[i]))
        => (ret = None /\ last.cause = "InvalidInput")

\* C9: the stage fetch_stock_data then calculate_returns never hands on a
\* cleaned series of fewer than 50 observations.
C9_StageRejectsShortData ==
    (ClosedCall("calculate_returns") /\ last.arg = stock_data /\ ret # None)
        => FrameLen(stock_data) >= FetchMinRows

\* C10: a successful forecast for horizon H >= 1 holds H variances and H
\* volatilities, reports H, and each volatility squared is the variance of
\* its step.
C10_ForecastShape ==
    (ClosedCall("forecast_volatility") /\ ret # None) =>
        /\ last.arg.horizon >= 1
        /\ ret.forecast_horizon = last.arg.horizon
        /\ Len(ret.variance_forecast) = last.arg.horizon
        /\ Len(ret.volatility_forecast) = last.arg.horizon
        /\ \A h \in 1..last.arg.horizon :
              FMul(ret.volatility_forecast[h], ret.volatility_forecast[h])
                  = ret.variance_forecast[h]

\* A forecast over two steps or more whose steps differ.
C10_Witness ==
    /\ ClosedCall("forecast_volatility")
    /\ ret # None
    /\ last.arg.horizon >= 2
    /\ ret.variance_forecast[1] # ret.variance_forecast[2]

\* C11: the 100x scaling inside fit_garch is invisible: the residuals of the
\* fit returned are in the scale of the returns passed, so that the step
\* from one residual to the next is the step between the two returns.
C11_OutputsInReturnScale ==
    (ClosedCall("fit_garch") /\ ret # None) =>
        LET clean == dropna(last.arg.returns)
        IN  \A i \in 1..(SeriesLen(clean) - 1) :
                FSub(ret.resid.values[i + 1], ret.resid.values[i]) =
                    FSub(clean.values[i + 1], clean.values[i])

DiagnosticCall == last.op \in DiagnosticTests /\ IsFit(last.arg.model_fit)

\* C12: ljung_box_test and arch_lm_test called on a fit with lags <= 0 fail
\* with an invalid-input failure and return no result record.
C12_RejectsNonPositiveLags ==
    (DiagnosticCall /\ last.arg.lags <= 0) =>
        (ret = None /\ last.cause = "InvalidInput")

\* C13: ljung_box_test and arch_lm_test called on a fit whose residual
\* series has fewer than lags + 1 observations fail with the
\* insufficient-data failure and return no result record.
C13_RejectsShortResiduals ==
    (DiagnosticCall /\ last.arg.lags >= 1
        /\ last.arg.model_fit.nobs < last.arg.lags + 1) =>
        (ret = None /\ last.cause = "InsufficientData")

\* The squared standardized residuals of the fit of the last call.
Z2 == SquaredResiduals(StandardizedResiduals(last.arg.model_fit))

\* Q = N(N+2) * sum over k = 1..L of rho_k^2 / (N - k).
LjungBoxQ(z2, L) ==
    LET N == Len(z2)
    IN  FScale(FSum([k \in 1..L |->
                        FDiv(autocorr_squared(z2, k), F(N - k))], L),
               N * (N + 2))

\* C14: a record of ljung_box_test for L >= 1 lags on N squared standardized
\* residuals holds Q = N(N+2) * sum over k = 1..L of rho_k^2 / (N - k), each
\* lag once; its p-value is the chi-square tail with L degrees of freedom at
\* Q, and its 'lags' is L.
C14_LjungBoxStatistic ==
    (ClosedCall("ljung_box_test") /\ ret # None /\ last.arg.lags >= 1) =>
        LET L == last.arg.lags
            stat == ret.test_statistic
        IN  /\ stat.of = Z2
            /\ Len(stat.terms) = L
            /\ \A k \in 1..L : stat.terms[k].autocorr = k
            /\ LjungBoxValue(stat) = LjungBoxQ(Z2, L)
            /\ ret.p_value = [tail_of |-> "chi2", at |-> "lb_stat", df |-> L]
            /\ ret.lags = L

\* A Ljung-Box record over two lags whose statistic is a positive number.
C14_Witness ==
    /\ ClosedCall("ljung_box_test")
    /\ ret # None
    /\ last.arg.lags = 2
    /\ IsRational(LjungBoxValue(ret.test_statistic))
    /\ LjungBoxValue(ret.test_statistic)[1] > 0

\* C15: a record of arch_lm_test for L >= 1 lags comes from the regression
\* of z_t^2 on an intercept and its L lags: N - L rows and L + 1 columns, a
\* first column of ones, column j + 1 holding z_(t-j)^2 in the row of target
\* z_t^2; the statistic is (N - L) * R^2, which for one lag is (N - 1) times
\* the squared correlation of z_t^2 with z_(t-1)^2.
C15_ArchLMRegression ==
    (ClosedCall("arch_lm_test") /\ ret # None /\ last.arg.lags >= 1) =>
        LET L == last.arg.lags
            N == Len(Z2)
            stat == ret.test_statistic
        IN  /\ Len(stat.X) = N - L
            /\ stat.rows = N - L
            /\ \A r \in 1..(N - L) :
                  /\ Len(stat.X[r]) = L + 1
                  /\ stat.X[r][1] = F(1)
                  /\ stat.y[r] = Z2[L + r]
                  /\ \A j \in 1..L : stat.X[r][j + 1] = Z2[L + r - j]
            /\ (stat.solve = "solved" /\ L = 1) =>
                  ArchLMValue(stat) =
                      (IF IsNaN(autocorr_squared(Z2, 1)) THEN NaN
                       ELSE FMul(F(N - 1), autocorr_squared(Z2, 1)))
            /\ ret.lags = L

\* An ARCH-LM record over two lags, solved, with a positive statistic.
C15_Witness ==
    /\ ClosedCall("arch_lm_test")
    /\ ret # None
    /\ last.arg.lags = 2
    /\ ret.test_statistic.solve = "solved"
    /\ IsRational(ArchLMValue(ret.test_statistic))
    /\ ArchLMValue(ret.test_statistic)[1] > 0

\* A record returned by one of the two tests.
DiagnosticRecord == last.op \in DiagnosticTests /\ ret # None

\* The number the record's test_statistic is.
StatisticValue ==
    IF last.op = "ljung_box_test" THEN LjungBoxValue(ret.test_statistic)
    ELSE ArchLMValue(ret.test_statistic)

\* The record of a regression whose normal equations were solved, or of the
\* Ljung-Box test.
ValueDetermined ==
    last.op = "arch_lm_test" => ret.test_statistic.solve = "solved"

\* C16: every record returned by ljung_box_test or arch_lm_test has
\* test_statistic >= 0 and 0 <= p_value <= 1.
C16_StatisticAndPValueRanges ==
    (DiagnosticRecord /\ ValueDetermined) =>
        /\ IsRational(StatisticValue)
        /\ StatisticValue[1] >= 0
        /\ ~PValueIsNaN(StatisticValue, ret.lags)

\* chi2.ppf(0.95, df) in thousandths, for df = 1 and 2.
CriticalThousandths(df) == IF df = 1 THEN 3841 ELSE 5991

\* p_value < 0.05: the statistic lies above the 95% quantile.
PValueBelow5Percent ==
    /\ ~PValueIsNaN(StatisticValue, ret.lags)
    /\ StatisticValue[1] * 1000 > CriticalThousandths(ret.lags) * StatisticValue[2]

ReportFields == {"test_statistic", "p_value", "lags", "critical_value"}

\* C17: each report carries, besides statistic, p-value, lags and critical
\* value, a decision flag, which says reject exactly when p_value < 0.05.
C17_DecisionFlag ==
    (DiagnosticRecord /\ ValueDetermined) =>
        \E flag \in DOMAIN ret \ ReportFields :
            (ret[flag] = "reject") <=> PValueBelow5Percent

\* C18: a fit that fit_garch returns has converged and has alpha + beta < 1;
\* at any other end of the optimiser fit_garch returns no fit.
C18_StationaryOrRejected ==
    (ClosedCall("fit_garch") /\ ret # None) =>
        LET persistence == FAdd(ret.params["alpha[1]"], ret.params["beta[1]"])
        IN  /\ ret.convergence_flag = 0
            /\ persistence[1] < persistence[2]

\* C19: the fit has no mean parameter: its parameters are omega, alpha and
\* beta, its residual at every t is the scaled return at t, and the series
\* calculate_residuals gives is residual / conditional volatility.
C19_NoMeanParameter ==
    (ClosedCall("fit_garch") /\ ret # None) =>
        /\ DOMAIN ret.params = {"omega", "alpha[1]", "beta[1]"}
        /\ ret.resid = ScaleReturns(dropna(last.arg.returns))
        /\ \A t \in Positions(ret.resid) :
              StandardizedResiduals(ret).values[t] =
                  FDiv(ret.resid.values[t],
                       ret.conditional_volatility.values[t])

\* C20: forecast_volatility is reproducible: a call with the fit, the
\* horizon and the seed of the call before it returns the same forecasts.
C20_ForecastReproducible ==
    [][(/\ last.op = "forecast_volatility"
        /\ last'.op = "forecast_volatility"
        /\ last'.arg = last.arg
        /\ ret # None
        /\ ret' # None) => ret' = ret]_vars

\* The stages of the application's run, in their order.
StageOps ==
    <<"fetch_stock_data", "calculate_returns", "fit_garch", "forecast_volatility">>

\* The step calls the stage: the run moves on and the last call becomes one
\* to op.
Invoked(op) == pc' # pc /\ last' # last /\ last'.op = op

\* The stage whose call was the last returned nothing the run can go on with
\* (None, or fewer rows than the application asks for).
StageFailed ==
    \/ \E k \in 1..Len(StageOps) : last.op = StageOps[k] /\ ret = None
    \/ last.op = "fetch_stock_data" /\ TooFewRows(ret)

\* C21: in a run of the application a stage is called only right after the
\* stage before it returned a result: calculate_returns after a fetch of at
\* least 100 rows, fit_garch after calculate_returns returned a frame (on
\* its log_returns column), forecast_volatility after fit_garch returned a
\* fit (on that fit); and after a stage that failed no stage is called.
C21_StagesForward ==
    [][/\ Invoked("fetch_stock_data") => last = NoCall
       /\ Invoked("calculate_returns") =>
              /\ last.op = "fetch_stock_data"
              /\ IsFrame(ret) /\ FrameLen(ret) >= AppMinRows
              /\ last'.arg = ret
       /\ Invoked("fit_garch") =>
              /\ last.op = "calculate_returns"
              /\ IsFrame(ret)
              /\ IsFrame(stock_data) /\ FrameLen(stock_data) >= AppMinRows
              /\ last'.arg.returns = Column(ret, "log_returns")
       /\ Invoked("forecast_volatility") =>
              /\ last.op = "fit_garch"
              /\ IsFit(ret)
              /\ last'.arg.model_fit = ret
       /\ StageFailed =>
              \A k \in 1..Len(StageOps) : ~Invoked(StageOps[k])]_vars

\* A run that stopped at a failed fit of fetched data.
C21_Witness ==
    /\ pc = "done"
    /\ last.op = "fit_garch" /\ ret = None
    /\ IsFrame(stock_data) /\ FrameLen(stock_data) >= AppMinRows
    /\ Len(shown) = 1 /\ shown[1].kind = "error"

\* C22: the success message is on the page only when every stage produced
\* a result (fetched data, a fit, and a forecast when the tabs start), and
\* no error message comes after it.
C22_SuccessIsFinal ==
    \A i \in 1..Len(shown) :
        shown[i].kind = "success" =>
            /\ IsFrame(stock_data) /\ IsFit(model_fit)
            /\ pc = "tabs" => IsForecast(ret)
            /\ \A j \in (i + 1)..Len(shown) : shown[j].kind # "error"

\* C25: every call of a public method of DataProcessor or GARCHModel ends
\* by returning: no exception reaches the caller, a call whose body raised
\* returns None whatever was raised, and a call whose body did not raise
\* returns its result.
C25_FailuresReturnNone ==
    last.op # "init" =>
        /\ ret # Raises
        /\ last.cause # "ok" => ret = None
        /\ last.cause = "ok" => ret # None

\* detect_outliers was called with a method name it does not know.
C25_Witness ==
    /\ last.op = "detect_outliers"
    /\ last.arg.method \notin KnownOutlierMethods
    /\ SeriesLen(last.arg.returns) >= FitMinObs
    /\ ret = None

PriceReadings == {"price_plot", "metrics", "export"}

\* C26: every display that reads the price series shows the column
\* calculate_returns computed the returns from, and a run that got as far as
\* the model summary ends with the export table on the page.
C26_OnePriceColumn ==
    /\ \A i \in 1..Len(shown) :
           shown[i].kind \in PriceReadings =>
               shown[i].body = SelectPrices(stock_data)
    /\ (pc = "done" /\ last.op = "get_model_summary") =>
           \E i \in 1..Len(shown) : shown[i].kind = "export"

\* The object is a result of fitting the model m: one of the results
\* m.fit() can return.
IsFitOf(fit, m) ==
    m # None /\ \E est \in OptimiserEnds : fit = FitResult(m, est)

\* C23: on one GARCHModel, fitted_model is None or a fit of the model that
\* self.model holds.
C23_FittedModelOfCurrentModel ==
    fitted_model = None \/ IsFitOf(fitted_model, model)

\* The operations that take the fit as an argument.
ArgumentOps ==
    {"forecast_volatility", "get_model_summary", "calculate_residuals",
     "ljung_box_test", "arch_lm_test"}

\* The squared standardized residuals of the fit passed.
ArgZ2(mf) == SquaredResiduals(StandardizedResiduals(mf))

\* The result of the last call is one its arguments allow: a function of
\* the arguments, but for the simulated steps of a forecast and the
\* rounding of a singular solve, which are drawn anew at each call.
ResultOfArguments ==
    LET mf == last.arg.model_fit
    IN  CASE last.op = "calculate_residuals" ->
                 ret = (IF IsFit(mf) THEN StandardizedResiduals(mf) ELSE None)
          [] last.op = "get_model_summary" ->
                 IF IsFit(mf)
                 THEN ret # None /\ ret.parameters = mf.params
                                 /\ ret.num_observations = mf.nobs
                 ELSE ret = None
          [] last.op = "forecast_volatility" ->
                 IF IsFit(mf) /\ last.arg.horizon >= 1
                 THEN \E v \in VarianceRows(mf, last.arg.horizon) :
                          ret = ForecastDict(v, last.arg.horizon)
                 ELSE ret = None
          [] last.op = "ljung_box_test" ->
                 IF IsFit(mf) /\ ~LjungBoxDividesByZero(mf.nobs, last.arg.lags)
                 THEN /\ ret # None
                      /\ ret.test_statistic =
                             LjungBoxStatistic(ArgZ2(mf), last.arg.lags)
                      /\ ret.lags = last.arg.lags
                      /\ ret.p_value.df = last.arg.lags
                 ELSE ret = None
          [] last.op = "arch_lm_test" ->
                 IF IsFit(mf) /\ last.arg.lags >= 0 /\ mf.nobs - last.arg.lags >= 0
                 THEN IF ret = None
                      THEN "LinAlgError" \in SolveOutcomes(ArgZ2(mf), last.arg.lags)
                      ELSE /\ ret.test_statistic \in
                                  {ArchLMStatistic(ArgZ2(mf), last.arg.lags, solve) :
                                      solve \in SolveOutcomes(ArgZ2(mf), last.arg.lags)}
                           /\ ret.lags = last.arg.lags
                           /\ ret.p_value.df = last.arg.lags
                 ELSE ret = None

\* C24: whatever self.model and self.fitted_model hold, the result of
\* forecast_volatility, get_model_summary, calculate_residuals,
\* ljung_box_test and arch_lm_test is one that the arguments of the call
\* allow.
C24_ResultOfArgumentsOnly == last.op \in ArgumentOps => ResultOfArguments

\* A diagnostic that succeeded on the fit passed to it while the handler
\* held the model of another series and the caller's last fit had failed.
C24_Witness ==
    /\ last.op = "ljung_box_test" /\ last.cause = "ok"
    /\ last.arg.model_fit = fitted_model
    /\ model_fit = None
    /\ ~IsFitOf(fitted_model, model)

====
